---- MODULE Spec2Model ----
(***************************************************************************)
(* Subspace domain-adaptation aligners of skada/_subspace.py:              *)
(*   SubspaceAlignmentAdapter, TransferComponentAnalysisAdapter,           *)
(*   TransferJointMatchingAdapter,                                         *)
(* and the SPA loss and net builder of skada/deep/_graph_alignment.py.     *)
(*                                                                         *)
(* Spec     : life cycle of one aligner instance (fit / adapt calls).      *)
(* SpecTJM  : one call of TransferJointMatchingAdapter.fit, one loop       *)
(*            iteration per step.                                          *)
(* SpecTCA  : the eigenvector selection of                                 *)
(*            TransferComponentAnalysisAdapter.fit.                        *)
(* SpecSPA  : a caller building nets with SPA(...) and evaluating          *)
(*            SPALoss.forward.                                             *)
(*                                                                         *)
(* Matrices are sequences of rows; a row is a sequence of integers.  The   *)
(* kernel is the linear kernel (kernel="linear"), which is exact on        *)
(* integer data.  Results of the external linear-algebra routines          *)
(* (np.linalg.solve, np.linalg.eigh, scipy.linalg.eigh, PCA) are chosen    *)
(* nondeterministically among well-formed results.                         *)
(***************************************************************************)
EXTENDS Integers, Sequences, FiniteSets, TLC

\* ------------------------------------------------------------------ bounds
MaxRows == 2        \* rows of X in the life cycle (Spec): 1..MaxRows
MaxFitRows == 3     \* rows of X in one fit call (SpecTJM, SpecTCA)
MaxComponents == 3  \* configured n_components: None or 1..MaxComponents
MaxIter == 2        \* configured max_iter: 0..MaxIter
MaxCalls == 2       \* SPA(...) calls of one caller

FeatureCounts == {1, 2}    \* X.shape[1]
FeatureValues == {1, 2}    \* value of the features of a row
DomainLabels == {-1, 1}    \* sample_domain: >= 0 source, < 0 target
EigVals == {-1, 0, 1}      \* eigenvalues returned by the eigensolvers
TolVals == {-1, 0, 1}      \* tol, in hundredths
LossVals == {-1, 0, 1, 2}  \* loss_total, in hundredths
RegVals == {1, 2}          \* reg_adv, reg_gsa, reg_nap
TermVals == {0, 1}         \* value of one term of the SPA loss
CallerLists == {1, 2}      \* the list objects the caller of SPA owns

None == -1                 \* Python None for an integer parameter

VARIABLES
    cls,           \* class of the instance: "SA", "TCA" or "TJM"
    n_components,  \* self.n_components (None or an integer)
    max_iter,      \* self.max_iter (TJM)
    tol,           \* self.tol (TJM), in hundredths
    nfeat,         \* number of features of the data set, X.shape[1]
    self,          \* the fitted attributes of the instance
    pc,            \* position of the caller / of fit
    op,            \* last call: "none", "fit" or "adapt"
    argX,          \* X of the last call
    argD,          \* sample_domain of the last call
    res,           \* outcome of the last call: "ok" or the exception raised
    out,           \* matrix returned by the last adapt call
    everFit,       \* a fit call has returned self on this instance
    fitted,        \* attributes stored by the last fit call, if it returned
    i,             \* TJM fit: number of loop iterations started
    last_loss,     \* TJM fit: last_loss, in hundredths
    loss_total,    \* TJM fit: loss_total, in hundredths
    A,             \* TJM fit: local A (<<>> while unbound)
    G,             \* TJM fit: diagonal of G
    source_mask,   \* TJM fit: extract_source_indices(sample_domain)
    checks,        \* TJM fit: value of the convergence check of each iteration
    eigvals,       \* TCA fit: eigvals returned by np.linalg.eigh
    eigvects,      \* TCA fit: eigvects returned by np.linalg.eigh
    selected_components,  \* TCA fit: selected_components
    lists,         \* SPA: the Python list objects, by identity
    nets,          \* SPA: the nets built so far
    calls,         \* SPA: the calls made so far, with what each handed over
    forward        \* SPALoss.forward: the last evaluation

vars == <<cls, n_components, max_iter, tol, nfeat, self, pc, op, argX, argD,
          res, out, everFit, fitted, i, last_loss, loss_total, A, G,
          source_mask, checks, eigvals, eigvects, selected_components,
          lists, nets, calls, forward>>

config == <<cls, n_components, max_iter, tol, nfeat>>
tjmLocals == <<i, last_loss, loss_total, A, G, source_mask, checks>>
tcaLocals == <<eigvals, eigvects, selected_components>>
spaVars == <<lists, nets, calls, forward>>

\* ----------------------------------------------------------- arithmetic
Min(a, b) == IF a <= b THEN a ELSE b

Abs(a) == IF a >= 0 THEN a ELSE -a

RECURSIVE SumTo(_, _)
SumTo(f, n) == IF n = 0 THEN 0 ELSE f[n] + SumTo(f, n - 1)

Sum(f) == SumTo(f, Len(f))

Dot(x, y) == Sum([j \in 1..Len(x) |-> x[j] * y[j]])

\* K @ P for K of shape (m, n) and P of shape (n, c)
MatMul(Kmat, P) ==
    [r \in 1..Len(Kmat) |->
        [c \in 1..Len(P[1]) |-> Sum([j \in 1..Len(P) |-> Kmat[r][j] * P[j][c]])]]

\* K @ P raises ValueError when the inner dimensions differ
MatMulRaises(Kmat, P) == Len(Kmat[1]) # Len(P)

Identity(n) == [r \in 1..n |-> [c \in 1..n |-> IF r = c THEN 1 ELSE 0]]

\* M[:, idx] for a sequence idx of column indices
Columns(M, idx) == [r \in 1..Len(M) |-> [k \in 1..Len(idx) |-> M[r][idx[k]]]]

\* M[:k]
FirstRows(M, k) == [r \in 1..Min(k, Len(M)) |-> M[r]]

\* the sequences over 1..n without repetition, of length k
InjectiveSeqs(n, k) ==
    {s \in [1..k -> 1..n] : \A a, b \in 1..k : s[a] = s[b] => a = b}

\* ------------------------------------------------ domain split and merge
IsSource(label) == label >= 0

extract_source_indices(sample_domain) ==
    [r \in 1..Len(sample_domain) |-> IsSource(sample_domain[r])]

\* indices of the rows of one domain, in input order
DomainRows(sample_domain, src) ==
    SelectSeq([r \in 1..Len(sample_domain) |-> r],
              LAMBDA r : IsSource(sample_domain[r]) = src)

BlockOf(X, sample_domain, src) ==
    LET idx == DomainRows(sample_domain, src)
    IN  [k \in 1..Len(idx) |-> X[idx[k]]]

source_target_split(X, sample_domain) ==
    [source |-> BlockOf(X, sample_domain, TRUE),
     target |-> BlockOf(X, sample_domain, FALSE)]

\* position of input row r inside the block of its domain
RankInBlock(sample_domain, r) ==
    Cardinality({q \in 1..r :
        IsSource(sample_domain[q]) = IsSource(sample_domain[r])})

source_target_merge(X_source, X_target, sample_domain) ==
    [r \in 1..Len(sample_domain) |->
        IF IsSource(sample_domain[r])
        THEN X_source[RankInBlock(sample_domain, r)]
        ELSE X_target[RankInBlock(sample_domain, r)]]

\* check_X_domain: X and sample_domain are parallel and X has a row
check_X_domain(X, sample_domain) ==
    Len(X) >= 1 /\ Len(X) = Len(sample_domain)

\* ------------------------------------------------------------- the inputs
RowsOf(d) == {[j \in 1..d |-> v] : v \in FeatureValues}

InputsUpTo(d, rows) ==
    UNION {{[X |-> x, sample_domain |-> sd] :
                x \in [1..n -> RowsOf(d)], sd \in [1..n -> DomainLabels]} :
           n \in 1..rows}

\* the inputs of the life cycle, by number of features
Inputs == [d \in FeatureCounts |-> InputsUpTo(d, MaxRows)]

\* ---------------------------------------------------------------- kernels
\* variant: pairwise_kernels accepts an array without rows
KernelRaisesNever(X, Y) == FALSE

\* pairwise_kernels(X, Y, metric="linear"); sklearn rejects an empty array
KernelRaises(X, Y) == Len(X) = 0 \/ Len(Y) = 0

pairwise_kernels(X, Y) ==
    [r \in 1..Len(X) |-> [c \in 1..Len(Y) |-> Dot(X[r], Y[c])]]

\* np.block([[Kss, Kst], [Kst.T, Ktt]])
_get_kernel_matrix(X_source, X_target) ==
    LET Kss == pairwise_kernels(X_source, X_source)
        Ktt == pairwise_kernels(X_target, X_target)
        Kst == pairwise_kernels(X_source, X_target)
        ns == Len(X_source)
        nt == Len(X_target)
    IN  [r \in 1..(ns + nt) |->
            [c \in 1..(ns + nt) |->
                IF r <= ns
                THEN IF c <= ns THEN Kss[r][c] ELSE Kst[r][c - ns]
                ELSE IF c <= ns THEN Kst[c][r - ns] ELSE Ktt[r - ns][c - ns]]]

\* variant: the two cross-kernels are concatenated target block first
CrossKernelTargetFirst(X, Xs_fit, Xt_fit) ==
    LET Ks == pairwise_kernels(X, Xs_fit)
        Kt == pairwise_kernels(X, Xt_fit)
    IN  [r \in 1..Len(X) |-> Kt[r] \o Ks[r]]

\* np.concatenate((Ks, Kt), axis=1) of the cross-kernels of X with the
\* stored fit blocks
CrossKernel(X, Xs_fit, Xt_fit) ==
    LET Ks == pairwise_kernels(X, Xs_fit)
        Kt == pairwise_kernels(X, Xt_fit)
    IN  [r \in 1..Len(X) |-> Ks[r] \o Kt[r]]

\* ------------------------------------------------- external eigensolvers
\* the non-decreasing sequences of n eigenvalues
AscSeqs(n) ==
    {w \in [1..n -> EigVals] : \A a \in 1..(n - 1) : w[a] <= w[a + 1]}

\* np.linalg.eigh / scipy.linalg.eigh: eigenvalues in ascending order, one
\* eigenvector per column (here the columns of a permutation matrix)
Eigh(n) ==
    {[w |-> w, v |-> Columns(Identity(n), p)] :
        w \in AscSeqs(n), p \in InjectiveSeqs(n, n)}

MaxN == IF MaxRows >= MaxFitRows THEN MaxRows ELSE MaxFitRows

\* the largest effective n_components
MaxK == IF MaxComponents >= MaxN THEN MaxComponents ELSE MaxN

EighResults == [n \in 1..MaxN |-> Eigh(n)]

\* np.argsort(v): an index order that sorts v ascending; the default sort
\* kind is not stable, so equal values come in any order
ArgSorts(v) ==
    {p \in InjectiveSeqs(Len(v), Len(v)) :
        \A a \in 1..(Len(v) - 1) : v[p[a]] <= v[p[a + 1]]}

\* p[::-1]
Reversed(p) == [k \in 1..Len(p) |-> p[Len(p) + 1 - k]]

\* p[:k]
Prefix(p, k) == [a \in 1..Min(k, Len(p)) |-> p[a]]

\* -------------------------------------------------- fitted attributes
\* a fitted sklearn PCA: what it was fitted on, with how many components
NoPCA == [n_components |-> 0, fit_on |-> <<>>]

PCA(nc, block) == [n_components |-> nc, fit_on |-> block]

\* PCA.fit raises ValueError unless n_components <= min(n_samples, n_features)
\* of the block it is given, and on a block without rows
PCARaises(nc, block, d) == Len(block) = 0 \/ nc > Min(Len(block), d)

\* np.dot(pca_source_.components_, pca_target_.components_.T)
NoM == [source |-> NoPCA, target |-> NoPCA]

AlignmentMap(pca_s, pca_t) == [source |-> pca_s, target |-> pca_t]

\* pca.transform(X)[r]: row x in the basis of pca, not yet multiplied
PCATransform(pca, x) == [x |-> x, basis |-> pca, M |-> NoM]

\* np.dot(row, M)
NpDot(row, M) == [row EXCEPT !.M = M]

\* variant: __init__ creates every fitted attribute with a default value
InitialisedAttributes ==
    [has |-> {"random_state_", "pca_source_", "pca_target_", "n_components_",
              "M_", "X_source_", "X_target_", "K_", "eigvects_", "A_"},
     random_state_ |-> 0, pca_source_ |-> NoPCA,
     pca_target_ |-> NoPCA, n_components_ |-> 0, M_ |-> NoM,
     X_source_ |-> <<>>, X_target_ |-> <<>>, K_ |-> <<>>,
     eigvects_ |-> <<>>, A_ |-> <<>>]

\* __init__ stores the parameters only: no fitted attribute exists
Unfitted ==
    [has |-> {}, random_state_ |-> 0, pca_source_ |-> NoPCA,
     pca_target_ |-> NoPCA, n_components_ |-> 0, M_ |-> NoM,
     X_source_ |-> <<>>, X_target_ |-> <<>>, K_ |-> <<>>,
     eigvects_ |-> <<>>, A_ |-> <<>>]

Raise(s, exc) == [self |-> s, res |-> exc, out |-> <<>>]

Return(s, value) == [self |-> s, res |-> "ok", out |-> value]

\* n_components, or its default min(X.shape[0], X.shape[1])
EffectiveComponents(nc, X, d) == IF nc = None THEN Min(Len(X), d) ELSE nc

\* ------------------------------------------- SubspaceAlignmentAdapter
SA_fit(s, nc, d, X, sample_domain) ==
    LET sp == source_target_split(X, sample_domain)
        k == EffectiveComponents(nc, X, d)
        s1 == [s EXCEPT !.has = @ \cup {"random_state_"}, !.random_state_ = 1]
        s2 == [s1 EXCEPT !.has = @ \cup {"pca_source_"},
                         !.pca_source_ = PCA(k, sp.source)]
        s3 == [s2 EXCEPT !.has = @ \cup {"pca_target_"},
                         !.pca_target_ = PCA(k, sp.target)]
        s4 == [s3 EXCEPT !.has = @ \cup {"n_components_", "M_"},
                         !.n_components_ = k,
                         !.M_ = AlignmentMap(s3.pca_source_, s3.pca_target_)]
    IN  IF PCARaises(k, sp.source, d) THEN Raise(s1, "ValueError")
        ELSE IF PCARaises(k, sp.target, d) THEN Raise(s2, "ValueError")
        ELSE Return(s4, <<>>)

SA_adapt(s, X, sample_domain) ==
    LET sp == source_target_split(X, sample_domain)
        ns == Len(sp.source)
        nt == Len(sp.target)
        X_source == [r \in 1..ns |->
                        NpDot(PCATransform(s.pca_source_, sp.source[r]), s.M_)]
        X_target == [r \in 1..nt |->
                        NpDot(PCATransform(s.pca_target_, sp.target[r]), s.M_)]
    IN  IF ns > 0 /\ ~({"pca_source_", "M_"} \subseteq s.has)
        THEN Raise(s, "AttributeError")
        ELSE IF nt > 0 /\ ~({"pca_target_", "M_"} \subseteq s.has)
        THEN Raise(s, "AttributeError")
        ELSE Return(s, source_target_merge(X_source, X_target, sample_domain))

\* ---------------------------------- TransferComponentAnalysisAdapter
\* variant: the reversal [::-1] is left out
TCASelectAscending(w, k) ==
    {Prefix(p, k) : p \in ArgSorts([a \in 1..Len(w) |-> Abs(w[a])])}

\* np.argsort(np.abs(eigvals))[::-1][:n_components]
TCASelect(w, k) ==
    {Prefix(Reversed(p), k) : p \in ArgSorts([a \in 1..Len(w) |-> Abs(w[a])])}

\* eigvects[:, selected_components] for every result of np.linalg.eigh
TCAEigvects ==
    [n \in 1..MaxN |-> [k \in 1..MaxK |->
        UNION {{Columns(e.v, sel) : sel \in TCASelect(e.w, k)} :
               e \in EighResults[n]}]]

TCA_fit(s, nc, d, X, sample_domain) ==
    LET sp == source_target_split(X, sample_domain)
        n == Len(sp.source) + Len(sp.target)
        k == EffectiveComponents(nc, X, d)
        s1 == [s EXCEPT !.has = @ \cup {"X_source_", "X_target_"},
                        !.X_source_ = sp.source, !.X_target_ = sp.target]
        s2 == [s1 EXCEPT !.has = @ \cup {"K_"},
                         !.K_ = _get_kernel_matrix(sp.source, sp.target)]
    IN  IF KernelRaises(sp.source, sp.target) THEN {Raise(s1, "ValueError")}
        ELSE {Raise(s2, "LinAlgError")}
             \cup {Return([s2 EXCEPT !.has = @ \cup {"eigvects_"},
                                     !.eigvects_ = ev], <<>>) :
                      ev \in TCAEigvects[n][k]}

\* variant: the reuse path is taken when the source blocks are equal
TCA_adapt_source_only(s, X, sample_domain) ==
    LET sp == source_target_split(X, sample_domain)
    IN  IF ~({"X_source_", "X_target_"} \subseteq s.has)
        THEN Raise(s, "AttributeError")
        ELSE IF sp.source = s.X_source_
        THEN IF ~({"K_", "eigvects_"} \subseteq s.has)
             THEN Raise(s, "AttributeError")
             ELSE IF MatMulRaises(s.K_, s.eigvects_)
             THEN Raise(s, "ValueError")
             ELSE Return(s, FirstRows(MatMul(s.K_, s.eigvects_), Len(X)))
        ELSE IF KernelRaises(X, s.X_source_) \/ KernelRaises(X, s.X_target_)
        THEN Raise(s, "ValueError")
        ELSE IF ~("eigvects_" \in s.has)
        THEN Raise(s, "AttributeError")
        ELSE IF MatMulRaises(CrossKernel(X, s.X_source_, s.X_target_),
                             s.eigvects_)
        THEN Raise(s, "ValueError")
        ELSE Return(s, FirstRows(
                 MatMul(CrossKernel(X, s.X_source_, s.X_target_), s.eigvects_),
                 Len(X)))

TCA_adapt(s, X, sample_domain) ==
    LET sp == source_target_split(X, sample_domain)
    IN  IF ~({"X_source_", "X_target_"} \subseteq s.has)
        THEN Raise(s, "AttributeError")
        ELSE IF sp.source = s.X_source_ /\ sp.target = s.X_target_
        THEN IF ~({"K_", "eigvects_"} \subseteq s.has)
             THEN Raise(s, "AttributeError")
             ELSE IF MatMulRaises(s.K_, s.eigvects_)
             THEN Raise(s, "ValueError")
             ELSE Return(s, FirstRows(MatMul(s.K_, s.eigvects_), Len(X)))
        ELSE IF KernelRaises(X, s.X_source_) \/ KernelRaises(X, s.X_target_)
        THEN Raise(s, "ValueError")
        ELSE IF ~("eigvects_" \in s.has)
        THEN Raise(s, "AttributeError")
        ELSE IF MatMulRaises(CrossKernel(X, s.X_source_, s.X_target_),
                             s.eigvects_)
        THEN Raise(s, "ValueError")
        ELSE Return(s, FirstRows(
                 MatMul(CrossKernel(X, s.X_source_, s.X_target_), s.eigvects_),
                 Len(X)))

\* -------------------------------------- TransferJointMatchingAdapter
\* phi, A = scipy.linalg.eigh(B, C); A[:, np.argsort(phi)[:n_components]]
TJMSolve ==
    [n \in 1..MaxN |-> [k \in 1..MaxK |->
        UNION {{Columns(e.v, Prefix(p, k)) : p \in ArgSorts(e.w)} :
               e \in EighResults[n]}]]

TJM_fit(s, nc, d, iters, X, sample_domain) ==
    LET sp == source_target_split(X, sample_domain)
        n == Len(X)
        k == EffectiveComponents(nc, X, d)
        s1 == [s EXCEPT !.has = @ \cup {"X_source_", "X_target_"},
                        !.X_source_ = sp.source, !.X_target_ = sp.target]
    IN  IF KernelRaises(sp.source, sp.target) THEN {Raise(s1, "ValueError")}
        ELSE IF iters = 0 THEN {Raise(s1, "UnboundLocalError")}
        ELSE {Raise(s1, "LinAlgError")}
             \cup {Return([s1 EXCEPT !.has = @ \cup {"A_"}, !.A_ = a], <<>>) :
                      a \in TJMSolve[n][k]}

\* variant: the recompute path stores the split blocks of its input
TJM_adapt_storing(s, X, sample_domain) ==
    LET sp == source_target_split(X, sample_domain)
        s1 == [s EXCEPT !.X_source_ = sp.source, !.X_target_ = sp.target]
    IN  IF ~({"X_source_", "X_target_"} \subseteq s.has)
        THEN Raise(s, "AttributeError")
        ELSE IF sp.source = s.X_source_ /\ sp.target = s.X_target_
        THEN IF KernelRaises(sp.source, sp.target)
             THEN Raise(s, "ValueError")
             ELSE IF ~("A_" \in s.has)
             THEN Raise(s, "AttributeError")
             ELSE IF MatMulRaises(_get_kernel_matrix(sp.source, sp.target),
                                  s.A_)
             THEN Raise(s, "ValueError")
             ELSE Return(s, MatMul(_get_kernel_matrix(sp.source, sp.target),
                                   s.A_))
        ELSE IF KernelRaises(X, s.X_source_) \/ KernelRaises(X, s.X_target_)
        THEN Raise(s, "ValueError")
        ELSE IF ~("A_" \in s.has)
        THEN Raise(s, "AttributeError")
        ELSE IF MatMulRaises(CrossKernel(X, s.X_source_, s.X_target_), s.A_)
        THEN Raise(s, "ValueError")
        ELSE Return(s1, MatMul(CrossKernel(X, s.X_source_, s.X_target_), s.A_))

TJM_adapt(s, X, sample_domain) ==
    LET sp == source_target_split(X, sample_domain)
    IN  IF ~({"X_source_", "X_target_"} \subseteq s.has)
        THEN Raise(s, "AttributeError")
        ELSE IF sp.source = s.X_source_ /\ sp.target = s.X_target_
        THEN IF KernelRaises(sp.source, sp.target)
             THEN Raise(s, "ValueError")
             ELSE IF ~("A_" \in s.has)
             THEN Raise(s, "AttributeError")
             ELSE IF MatMulRaises(_get_kernel_matrix(sp.source, sp.target),
                                  s.A_)
             THEN Raise(s, "ValueError")
             ELSE Return(s, MatMul(_get_kernel_matrix(sp.source, sp.target),
                                   s.A_))
        ELSE IF KernelRaises(X, s.X_source_) \/ KernelRaises(X, s.X_target_)
        THEN Raise(s, "ValueError")
        ELSE IF ~("A_" \in s.has)
        THEN Raise(s, "AttributeError")
        ELSE IF MatMulRaises(CrossKernel(X, s.X_source_, s.X_target_), s.A_)
        THEN Raise(s, "ValueError")
        ELSE Return(s, MatMul(CrossKernel(X, s.X_source_, s.X_target_), s.A_))

\* ------------------------------------------------ life cycle of an instance
NoLocals ==
    /\ i = 0 /\ last_loss = 0 /\ loss_total = 0 /\ A = <<>> /\ G = <<>>
    /\ source_mask = <<>> /\ checks = <<>>
    /\ eigvals = <<>> /\ eigvects = <<>> /\ selected_components = <<>>

\* no SPA call and no evaluation of the SPA loss
NoSPA == lists = <<>> /\ nets = <<>> /\ calls = <<>> /\ forward = <<>>

Init ==
    /\ cls \in {"SA", "TCA", "TJM"}
    /\ n_components \in {None} \cup 1..MaxComponents
    /\ max_iter \in IF cls = "TJM" THEN {0, MaxIter} ELSE {MaxIter}
    /\ tol = 1
    /\ nfeat \in FeatureCounts
    /\ self = Unfitted
    /\ pc = "idle" /\ op = "none" /\ argX = <<>> /\ argD = <<>>
    /\ res = "ok" /\ out = <<>>
    /\ everFit = FALSE /\ fitted = Unfitted
    /\ NoLocals /\ NoSPA

\* the caller sees the result r of a call
Called(name, inp, r) ==
    /\ pc' = "returned" /\ op' = name
    /\ argX' = inp.X /\ argD' = inp.sample_domain
    /\ self' = r.self /\ res' = r.res /\ out' = r.out
    /\ UNCHANGED <<spaVars, config, tjmLocals, tcaLocals>>

FitCalled(inp, r) ==
    /\ Called("fit", inp, r)
    /\ everFit' = (everFit \/ r.res = "ok")
    /\ fitted' = IF r.res = "ok" THEN r.self ELSE Unfitted

AdaptCalled(inp, r) ==
    /\ Called("adapt", inp, r)
    /\ UNCHANGED <<everFit, fitted>>

SAFit ==
    /\ pc = "idle" /\ cls = "SA"
    /\ \E inp \in Inputs[nfeat] :
        /\ check_X_domain(inp.X, inp.sample_domain)
        /\ FitCalled(inp, SA_fit(self, n_components, nfeat, inp.X,
                                 inp.sample_domain))

SAAdapt ==
    /\ pc = "idle" /\ cls = "SA"
    /\ \E inp \in Inputs[nfeat] :
        /\ check_X_domain(inp.X, inp.sample_domain)
        /\ AdaptCalled(inp, SA_adapt(self, inp.X, inp.sample_domain))

TCAFit ==
    /\ pc = "idle" /\ cls = "TCA"
    /\ \E inp \in Inputs[nfeat] :
        /\ check_X_domain(inp.X, inp.sample_domain)
        /\ \E r \in TCA_fit(self, n_components, nfeat, inp.X,
                            inp.sample_domain) : FitCalled(inp, r)

TCAAdapt ==
    /\ pc = "idle" /\ cls = "TCA"
    /\ \E inp \in Inputs[nfeat] :
        /\ check_X_domain(inp.X, inp.sample_domain)
        /\ AdaptCalled(inp, TCA_adapt(self, inp.X, inp.sample_domain))

TJMFit ==
    /\ pc = "idle" /\ cls = "TJM"
    /\ \E inp \in Inputs[nfeat] :
        /\ check_X_domain(inp.X, inp.sample_domain)
        /\ \E r \in TJM_fit(self, n_components, nfeat, max_iter, inp.X,
                            inp.sample_domain) : FitCalled(inp, r)

TJMAdapt ==
    /\ pc = "idle" /\ cls = "TJM"
    /\ \E inp \in Inputs[nfeat] :
        /\ check_X_domain(inp.X, inp.sample_domain)
        /\ AdaptCalled(inp, TJM_adapt(self, inp.X, inp.sample_domain))

\* the caller goes on to its next call
NextCall ==
    /\ pc = "returned"
    /\ pc' = "idle" /\ op' = "none" /\ argX' = <<>> /\ argD' = <<>>
    /\ res' = "ok" /\ out' = <<>>
    /\ UNCHANGED <<spaVars, config, self, everFit, fitted, tjmLocals, tcaLocals>>

Next ==
    \/ SAFit \/ SAAdapt
    \/ TCAFit \/ TCAAdapt
    \/ TJMFit \/ TJMAdapt
    \/ NextCall

Spec == Init /\ [][Next]_vars

\* ------------------------------- TransferJointMatchingAdapter.fit, stepwise
\* A diagonal entry of G is num / (den + eps * EPS_eigval), kept exact:
\* 0 is 0/1, 1 is 1/1, and 1 / (2 * norm + EPS_eigval) has eps = 1.
GZero == [num |-> 0, den |-> 1, eps |-> 0]

GOne == [num |-> 1, den |-> 1, eps |-> 0]

GRecip(norm) == [num |-> 1, den |-> 2 * norm, eps |-> 1]

\* np.linalg.norm of a row (the rows of the model have an integer norm)
RowNorm(row) ==
    LET sq == Sum([c \in 1..Len(row) |-> row[c] * row[c]])
    IN  CHOOSE q \in 0..sq : q * q = sq

\* G = np.zeros(n); G[A_norms != 0] = 1 / (2 * A_norms[...] + EPS_eigval);
\* G[~source_mask] = 1
UpdateG(a, mask) ==
    LET A_norms == [r \in 1..Len(a) |-> RowNorm(a[r])]
        G0 == [r \in 1..Len(a) |->
                  IF A_norms[r] # 0 THEN GRecip(A_norms[r]) ELSE GZero]
    IN  [r \in 1..Len(a) |-> IF ~mask[r] THEN GOne ELSE G0[r]]

\* last_loss == 0 or np.abs(last_loss - loss_total) / last_loss < self.tol,
\* with losses and tol in hundredths
ConvCheck(last, loss, t) ==
    \/ last = 0
    \/ last > 0 /\ 100 * Abs(last - loss) < t * last
    \/ last < 0 /\ 100 * Abs(last - loss) > t * last

\* last_loss = -2 * self.tol
InitialLastLoss(t) == -2 * t

\* variant: the loop runs one iteration more than max_iter
LoopContinuesInclusive(done, iters) == done <= iters

\* for i in range(self.max_iter): the loop goes on after `done` iterations
LoopContinues(done, iters) == done < iters

\* self.A_ = A; return self
TJMStoreResult(s, a) == [s EXCEPT !.has = @ \cup {"A_"}, !.A_ = a]

\* the inputs of one fit call: the rows all hold the same value
FitInputs ==
    [d \in FeatureCounts |->
        {inp \in InputsUpTo(d, MaxFitRows) :
            \A r \in 1..Len(inp.X), j \in 1..d : inp.X[r][j] = 1}]

InitCall(c) ==
    /\ cls = c
    /\ n_components \in {None} \cup 1..MaxComponents
    /\ nfeat \in FeatureCounts
    /\ self = Unfitted
    /\ pc = "call" /\ op = "fit"
    /\ \E inp \in FitInputs[nfeat] : argX = inp.X /\ argD = inp.sample_domain
    /\ check_X_domain(argX, argD)
    /\ res = "ok" /\ out = <<>>
    /\ everFit = FALSE /\ fitted = Unfitted
    /\ NoLocals /\ NoSPA

InitTJM ==
    /\ max_iter \in 0..MaxIter
    /\ tol \in TolVals
    /\ InitCall("TJM")

Raised(exc) ==
    /\ pc' = "returned" /\ res' = exc
    /\ UNCHANGED <<spaVars, config, op, argX, argD, out, everFit, fitted>>

\* lines 514-539: split, store the blocks, K, M, G, last_loss
TJMFitEnter ==
    LET sp == source_target_split(argX, argD)
    IN  /\ pc = "call" /\ cls = "TJM"
        /\ self' = [self EXCEPT !.has = @ \cup {"X_source_", "X_target_"},
                                !.X_source_ = sp.source,
                                !.X_target_ = sp.target]
        /\ IF KernelRaises(sp.source, sp.target)
           THEN Raised("ValueError") /\ UNCHANGED <<tjmLocals, tcaLocals>>
           ELSE /\ source_mask' = extract_source_indices(argD)
                /\ G' = [r \in 1..Len(argX) |-> GOne]
                /\ last_loss' = InitialLastLoss(tol)
                /\ pc' = IF LoopContinues(0, max_iter) THEN "loop" ELSE "exit"
                /\ UNCHANGED <<spaVars, config, op, argX, argD, res, out, everFit,
                               fitted, i, loss_total, A, checks, tcaLocals>>

\* lines 541-585: one iteration of the loop
TJMIterate ==
    /\ pc = "loop"
    /\ \E a \in TJMSolve[Len(argX)][
                         EffectiveComponents(n_components, argX, nfeat)],
          loss \in LossVals :
        LET stop == ConvCheck(last_loss, loss, tol)
        IN  /\ A' = a
            /\ G' = UpdateG(a, source_mask)
            /\ loss_total' = loss
            /\ checks' = Append(checks, stop)
            /\ i' = i + 1
            /\ last_loss' = IF stop THEN last_loss ELSE loss
            /\ pc' = IF ~stop /\ LoopContinues(i + 1, max_iter)
                     THEN "loop" ELSE "exit"
    /\ UNCHANGED <<spaVars, config, self, op, argX, argD, res, out, everFit, fitted,
                   source_mask, tcaLocals>>

\* line 546: scipy.linalg.eigh raises (C is not positive definite)
TJMIterateRaises ==
    /\ pc = "loop"
    /\ Raised("LinAlgError")
    /\ UNCHANGED <<self, tjmLocals, tcaLocals>>

\* lines 587-589
TJMFitReturn ==
    /\ pc = "exit"
    /\ IF A = <<>>
       THEN Raised("UnboundLocalError") /\ UNCHANGED <<self>>
       ELSE /\ self' = TJMStoreResult(self, A)
            /\ pc' = "returned"
            /\ UNCHANGED <<spaVars, config, op, argX, argD, res, out, everFit, fitted>>
    /\ UNCHANGED <<tjmLocals, tcaLocals>>

NextTJM == TJMFitEnter \/ TJMIterate \/ TJMIterateRaises \/ TJMFitReturn

SpecTJM == InitTJM /\ [][NextTJM]_vars

\* -------------------------- TransferComponentAnalysisAdapter.fit, stepwise
InitTCA ==
    /\ max_iter = MaxIter /\ tol = 1
    /\ InitCall("TCA")

\* lines 259-286: split, store the blocks, K, L, H, the linear solve
TCAFitEnter ==
    LET sp == source_target_split(argX, argD)
        s1 == [self EXCEPT !.has = @ \cup {"X_source_", "X_target_"},
                           !.X_source_ = sp.source, !.X_target_ = sp.target]
    IN  /\ pc = "call" /\ cls = "TCA"
        /\ \/ /\ KernelRaises(sp.source, sp.target)
              /\ self' = s1
              /\ Raised("ValueError")
           \/ /\ ~KernelRaises(sp.source, sp.target)
              /\ self' = [s1 EXCEPT !.has = @ \cup {"K_"},
                             !.K_ = _get_kernel_matrix(sp.source, sp.target)]
              /\ \/ Raised("LinAlgError")
                 \/ /\ pc' = "eigh"
                    /\ UNCHANGED <<spaVars, config, op, argX, argD, res, out, everFit,
                                   fitted>>
        /\ UNCHANGED <<tjmLocals, tcaLocals>>

\* line 288: eigvals, eigvects = np.linalg.eigh(solution)
TCAEigh ==
    /\ pc = "eigh"
    /\ \E e \in EighResults[Len(argX)] : eigvals' = e.w /\ eigvects' = e.v
    /\ pc' = "select"
    /\ UNCHANGED <<spaVars, config, self, op, argX, argD, res, out, everFit, fitted,
                   tjmLocals, selected_components>>

TCAEighRaises ==
    /\ pc = "eigh"
    /\ Raised("LinAlgError")
    /\ UNCHANGED <<self, tjmLocals, tcaLocals>>

\* lines 290-296
TCASelectStep ==
    /\ pc = "select"
    /\ \E sel \in TCASelect(eigvals,
                            EffectiveComponents(n_components, argX, nfeat)) :
        /\ selected_components' = sel
        /\ self' = [self EXCEPT !.has = @ \cup {"eigvects_"},
                                !.eigvects_ = Columns(eigvects, sel)]
    /\ pc' = "returned"
    /\ UNCHANGED <<spaVars, config, op, argX, argD, res, out, everFit, fitted,
                   tjmLocals, eigvals, eigvects>>

NextTCA == TCAFitEnter \/ TCAEigh \/ TCAEighRaises \/ TCASelectStep

SpecTCA == InitTCA /\ [][NextTCA]_vars

\* ------------------------------------------- SPALoss and SPA, net builder
\* the callbacks a caller may own
UserCallbacks == {<<>>, <<"cb1">>}

\* a list object: `items` is its content, `created` the content the caller
\* gave it when creating it
NewList(items) == [created |-> items, items |-> items]

\* SPALoss.__init__: the three coefficients are stored
SPALoss(reg_adv, reg_gsa, reg_nap) ==
    [reg_adv |-> reg_adv, reg_gsa |-> reg_gsa, reg_nap |-> reg_nap]

\* SPALoss.forward: adv_s and adv_t are the values of domain_criterion_ on the
\* source and on the target predictions, gda and nap those of gda_loss and
\* nap_loss
SPALoss_forward(crit, adv_s, adv_t, gda, nap) ==
    LET loss_adv == adv_s + adv_t
        loss_gda == crit.reg_gsa * gda
        loss_pl == crit.reg_nap * nap
    IN  loss_adv + loss_gda + loss_pl

\* the argument `callbacks` of SPA: None, one callback, or a list object
CallbackArgs ==
    {[kind |-> "None"], [kind |-> "callback", cb |-> "cb1"]}
        \cup {[kind |-> "list", id |-> l] : l \in CallerLists}

\* lines 173-183 of SPA: the list objects afterwards and the list handed to
\* the net
SPACallbacks(heap, callbacks) ==
    IF callbacks.kind = "None"
    THEN [lists |-> Append(heap, NewList(<<"ComputeMemoryBank",
                                           "OnTrainBeginCallback">>)),
          callbacks |-> Len(heap) + 1]
    ELSE IF callbacks.kind = "list"
    THEN [lists |-> [heap EXCEPT ![callbacks.id].items =
                        Append(Append(@, "ComputeMemoryBank"),
                               "OnTrainBeginCallback")],
          callbacks |-> callbacks.id]
    ELSE [lists |-> Append(heap, NewList(<<callbacks.cb, "ComputeMemoryBank",
                                           "OnTrainBeginCallback">>)),
          callbacks |-> Len(heap) + 1]

InitSPA ==
    /\ cls = "SPA" /\ n_components = None /\ max_iter = MaxIter /\ tol = 1
    /\ nfeat = 1 /\ self = Unfitted
    /\ pc = "idle" /\ op = "none" /\ argX = <<>> /\ argD = <<>>
    /\ res = "ok" /\ out = <<>>
    /\ everFit = FALSE /\ fitted = Unfitted
    /\ NoLocals
    /\ lists \in [CallerLists -> {NewList(u) : u \in UserCallbacks}]
    /\ nets = <<>> /\ calls = <<>> /\ forward = <<>>

aligner == <<config, self, pc, op, argX, argD, res, out, everFit, fitted,
             tjmLocals, tcaLocals>>

\* SPA(module, layer_name, reg_adv, reg_gsa, reg_nap, num_features=...,
\*     callbacks=...) returns a net
SPACall ==
    /\ Len(calls) < MaxCalls
    /\ \E callbacks \in CallbackArgs, reg_adv, reg_gsa, reg_nap \in RegVals :
        LET r == SPACallbacks(lists, callbacks)
        IN  /\ lists' = r.lists
            /\ nets' = Append(nets,
                  [callbacks |-> r.callbacks,
                   adapt_criterion |-> SPALoss(reg_adv, reg_gsa, reg_nap)])
            /\ calls' = Append(calls,
                  [callbacks |-> callbacks, res |-> "ok",
                   handed |-> r.lists[r.callbacks].items])
    /\ UNCHANGED <<aligner, forward>>

\* lines 165-170: neither domain_classifier nor num_features is given
SPACallRaises ==
    /\ Len(calls) < MaxCalls
    /\ \E callbacks \in CallbackArgs :
        calls' = Append(calls, [callbacks |-> callbacks, res |-> "ValueError",
                                handed |-> <<>>])
    /\ UNCHANGED <<aligner, lists, nets, forward>>

\* the adaptation criterion of a built net is evaluated on a batch
SPAForward ==
    /\ \E n \in 1..Len(nets), adv_s, adv_t, gda, nap \in TermVals :
        forward' = [criterion |-> nets[n].adapt_criterion,
                    adv_s |-> adv_s, adv_t |-> adv_t, gda |-> gda, nap |-> nap,
                    loss |-> SPALoss_forward(nets[n].adapt_criterion,
                                             adv_s, adv_t, gda, nap)]
    /\ UNCHANGED <<aligner, lists, nets, calls>>

NextSPA == SPACall \/ SPACallRaises \/ SPAForward

SpecSPA == InitSPA /\ [][NextSPA]_vars

\* ================================================================= claims
FitReturned == pc = "returned" /\ op = "fit"

AdaptReturned == pc = "returned" /\ op = "adapt"

\* the last fit call returned self and no fit call was made since
FittedInstance == fitted # Unfitted

\* the projection of one row x through the fitted projection P: the kernel
\* of x with every stored fit sample (source block first), times P
Projection(s, P, x) ==
    LET fitrows == s.X_source_ \o s.X_target_
    IN  [c \in 1..Len(P[1]) |->
            Sum([j \in 1..Len(P) |-> Dot(x, fitrows[j]) * P[j][c]])]

FittedProjection(s) == IF cls = "TCA" THEN s.eigvects_ ELSE s.A_

\* C1: TCA and TJM adapt on a fitted instance: output row r is the
\* projection of input row r, for every X and every domain-label vector,
\* on the reuse path and on the recompute path.
C1_OutputRowIsProjectionOfInputRow ==
    (AdaptReturned /\ cls \in {"TCA", "TJM"} /\ FittedInstance /\ res = "ok")
        => /\ Len(out) = Len(argX)
           /\ \A r \in 1..Len(argX) :
                out[r] = Projection(self, FittedProjection(self), argX[r])

\* C2: TJM fit with tol > 0 and max_iter >= 2: the check of the first
\* iteration does not stop the loop, the first loss is recorded and a second
\* iteration is executed.
C2_FirstIterationNeverStops ==
    (cls = "TJM" /\ tol > 0 /\ max_iter >= 2 /\ i >= 1)
        => /\ ~checks[1]
           /\ (i = 1 => last_loss = loss_total)
           /\ (pc = "returned" /\ res = "ok" => i >= 2)

\* C3: TJM fit, after the G update of every iteration: the diagonal entry of
\* G is 1 for every row of K / A that belongs to a target sample (K and A
\* hold the source block first, then the target block), for every ordering
\* of the domain labels.
C3_TargetRowsOfGAreOne ==
    (cls = "TJM" /\ i >= 1)
        => \A r \in 1..Len(G) : r > Len(self.X_source_) => G[r] = GOne

\* C4: SubspaceAlignmentAdapter.adapt projects source rows through the
\* source basis and then M_, and target rows through the target basis only,
\* without M_.
C4_TargetRowsWithoutM ==
    (AdaptReturned /\ cls = "SA" /\ res = "ok")
        => \A r \in 1..Len(argX) :
            out[r] = IF IsSource(argD[r])
                     THEN NpDot(PCATransform(self.pca_source_, argX[r]),
                                self.M_)
                     ELSE PCATransform(self.pca_target_, argX[r])

\* C5: SubspaceAlignmentAdapter.fit with n_s >= 1 source and n_t >= 1
\* target rows: n_components = min(n, d) (also the default) does not raise
\* the invalid-configuration error, and n_components = min(n, d) + 1 does.
C5_ComponentBoundary ==
    (FitReturned /\ cls = "SA"
        /\ Len(BlockOf(argX, argD, TRUE)) >= 1
        /\ Len(BlockOf(argX, argD, FALSE)) >= 1)
        => LET k == EffectiveComponents(n_components, argX, nfeat)
               bound == Min(Len(argX), nfeat)
           IN  /\ (k = bound => res # "ValueError")
               /\ (k = bound + 1 => res = "ValueError")

\* C6: a fit call that raises leaves every fitted attribute with the value,
\* or the absence, it had before the call.
C6_FailedFitLeavesAttributes ==
    [][(pc = "idle" /\ op' = "fit" /\ res' # "ok") => self' = self]_vars

\* what adapt returns for the attributes s
AdaptResult(s, X, sample_domain) ==
    IF cls = "SA" THEN SA_adapt(s, X, sample_domain)
    ELSE IF cls = "TCA" THEN TCA_adapt(s, X, sample_domain)
    ELSE TJM_adapt(s, X, sample_domain)

\* C7: adapt leaves every fitted attribute unchanged; after any sequence of
\* adapt calls following a successful fit the attributes are those stored by
\* that fit, and what adapt returns is decided by them and the input alone.
C7_AdaptKeepsFittedAttributes ==
    /\ [](FittedInstance => self = fitted)
    /\ []((AdaptReturned /\ FittedInstance)
            => LET r == AdaptResult(fitted, argX, argD)
               IN  res = r.res /\ out = r.out)
    /\ [][(pc = "idle" /\ op' = "adapt") => self' = self]_vars

C7_Witness ==
    /\ AdaptReturned /\ FittedInstance /\ res = "ok"
    /\ Len(out) = Len(argX) /\ Len(argX) >= 2

\* C8: adapt on an instance on which no fit call has completed ends in an
\* error for every input, and returns no matrix.
C8_AdaptBeforeFitRaises ==
    (AdaptReturned /\ ~everFit) => (res # "ok" /\ out = <<>>)

C8_Witness ==
    /\ AdaptReturned /\ ~everFit /\ self.has # {} /\ res = "AttributeError"

\* C9: for max_iter >= 1 the loop of TJM fit runs k iterations,
\* 1 <= k <= max_iter: it stops at the first iteration whose check holds,
\* otherwise records loss_total as last_loss and goes on; when max_iter is
\* exhausted fit returns normally, with A_ the A of the last iteration.
C9_LoopRunsOneToMaxIter ==
    (cls = "TJM" /\ max_iter >= 1)
        => /\ i <= max_iter /\ Len(checks) = i
           /\ \A j \in 1..(i - 1) : ~checks[j]
           /\ (i >= 1 /\ ~checks[i] => last_loss = loss_total)
           /\ (pc = "loop" => i < max_iter)
           /\ (pc = "exit" => i >= 1 /\ (checks[i] \/ i = max_iter))
           /\ (pc = "returned" /\ i = max_iter /\ ~checks[i] => res = "ok")
           /\ (pc = "returned" /\ res = "ok"
                 => /\ i >= 1 /\ (checks[i] \/ i = max_iter)
                    /\ "A_" \in self.has /\ self.A_ = A /\ A # <<>>)

C9_Witness ==
    /\ cls = "TJM" /\ pc = "returned" /\ res = "ok"
    /\ max_iter >= 2 /\ i = max_iter /\ ~checks[i]

AbsVal(w, j) == Abs(w[j])

FitSelected == cls = "TCA" /\ pc = "returned" /\ res = "ok"

\* C10 as stated: the selected indices are those of the largest
\* |eigenvalue|, in non-increasing order of |eigenvalue|, ties broken by
\* original index order (the lower index first).
C10_TiesByLowerIndex ==
    FitSelected
        => LET sel == selected_components
           IN  /\ \A a, b \in 1..Len(sel) :
                    a < b => \/ AbsVal(eigvals, sel[a]) > AbsVal(eigvals, sel[b])
                             \/ /\ AbsVal(eigvals, sel[a]) = AbsVal(eigvals, sel[b])
                                /\ sel[a] < sel[b]
               /\ \A a \in 1..Len(sel), j \in 1..Len(eigvals) :
                    (\A b \in 1..Len(sel) : sel[b] # j)
                        => \/ AbsVal(eigvals, j) < AbsVal(eigvals, sel[a])
                           \/ /\ AbsVal(eigvals, j) = AbsVal(eigvals, sel[a])
                              /\ sel[a] < j

\* C10, amended: min(n_components, n) distinct indices are selected, those
\* of the largest |eigenvalue|, in non-increasing order of |eigenvalue|;
\* eigvects_ holds the corresponding columns in that order.
C10_LargestMagnitudeFirst ==
    FitSelected
        => LET sel == selected_components
               k == EffectiveComponents(n_components, argX, nfeat)
           IN  /\ Len(sel) = Min(k, Len(eigvals))
               /\ \A a, b \in 1..Len(sel) : sel[a] = sel[b] => a = b
               /\ \A a \in 1..(Len(sel) - 1) :
                    AbsVal(eigvals, sel[a]) >= AbsVal(eigvals, sel[a + 1])
               /\ \A a \in 1..Len(sel), j \in 1..Len(eigvals) :
                    (\A b \in 1..Len(sel) : sel[b] # j)
                        => AbsVal(eigvals, j) <= AbsVal(eigvals, sel[a])
               /\ self.eigvects_ =
                    [r \in 1..Len(eigvects) |->
                        [c \in 1..Len(sel) |-> eigvects[r][sel[c]]]]

C10_Witness ==
    /\ FitSelected /\ Len(selected_components) = 2 /\ Len(eigvals) = 3
    /\ AbsVal(eigvals, selected_components[1])
         > AbsVal(eigvals, selected_components[2])
    /\ \E j \in 1..3 : AbsVal(eigvals, j) = AbsVal(eigvals, selected_components[2])
                       /\ j # selected_components[2]

\* the split blocks of the input of the last call are, by value, the blocks
\* stored by fit
SameBlocksAsFit ==
    LET sp == source_target_split(argX, argD)
    IN  sp.source = self.X_source_ /\ sp.target = self.X_target_

\* C11: TCA adapt returns (K_ @ eigvects_)[:n] with the stored K_ exactly
\* when both split blocks of the input equal, by value, the stored X_source_
\* and X_target_; in every other case it returns the cross-kernels between
\* the input rows and the stored fit blocks, times eigvects_.
C11_ReuseExactlyOnEqualBlocks ==
    (AdaptReturned /\ cls = "TCA" /\ res = "ok")
        => out = IF SameBlocksAsFit
                 THEN FirstRows(MatMul(self.K_, self.eigvects_), Len(argX))
                 ELSE MatMul([r \in 1..Len(argX) |->
                                 [j \in 1..Len(self.eigvects_) |->
                                     Dot(argX[r],
                                         (self.X_source_ \o self.X_target_)[j])]],
                             self.eigvects_)

C11_Witness ==
    /\ AdaptReturned /\ cls = "TCA" /\ res = "ok" /\ SameBlocksAsFit
    /\ Len(self.X_source_) >= 1 /\ Len(self.X_target_) >= 1
    /\ out = FirstRows(MatMul(self.K_, self.eigvects_), Len(argX))
    /\ \E r \in 1..Len(out) : \E c \in 1..Len(out[r]) : out[r][c] # 0

\* C12: after every successful fit, eigvects_ (TCA) and A_ (TJM) have
\* n_s + n_t rows and n_components columns, for every configured
\* n_components >= 1, also above n_s + n_t, and for the default
\* min(n_samples, n_features).
C12_ProjectionShape ==
    (FitReturned /\ cls \in {"TCA", "TJM"} /\ res = "ok")
        => LET P == FittedProjection(self)
               k == EffectiveComponents(n_components, argX, nfeat)
           IN  /\ Len(P) = Len(self.X_source_) + Len(self.X_target_)
               /\ \A r \in 1..Len(P) : Len(P[r]) = k

\* a diagonal entry of G is a finite number: its denominator is not zero
GFinite(g) == g.den + g.eps > 0

\* C13: TJM fit, after the G update of every iteration: for every row of A
\* that belongs to a source sample (A holds the source block first) the
\* diagonal entry of G is 1 / (2 * norm + eps) when the norm of the row is
\* not zero, and a finite value when it is zero.
C13_SourceRowsOfG ==
    (cls = "TJM" /\ i >= 1)
        => \A r \in 1..Len(G) :
            r <= Len(self.X_source_)
                => IF RowNorm(A[r]) # 0
                   THEN G[r] = GRecip(RowNorm(A[r]))
                   ELSE GFinite(G[r])

\* the input of the last call has no source row or no target row
MissingDomain ==
    \/ Len(BlockOf(argX, argD, TRUE)) = 0
    \/ Len(BlockOf(argX, argD, FALSE)) = 0

\* C15: for each of the three aligners, fit on an input without source rows
\* or without target rows ends in an error and returns no fitted instance.
C15_FitWithoutADomainRaises ==
    (FitReturned /\ MissingDomain) => (res # "ok" /\ ~FittedInstance)

C15_Witness ==
    /\ FitReturned /\ MissingDomain /\ res = "ValueError"
    /\ Len(argX) >= 2 /\ everFit

\* C16: TJM fit assigns A_ and returns self on every call whose input passes
\* validation (rows of both domains, no failure of the eigensolver), for
\* every max_iter >= 0, max_iter = 0 included.
C16_FitReturnsForEveryMaxIter ==
    (cls = "TJM" /\ pc = "returned" /\ ~MissingDomain /\ res # "LinAlgError")
        => (res = "ok" /\ "A_" \in self.has)

\* the stored fit samples, in the row order of eigvects_ / A_
FitRows == self.X_source_ \o self.X_target_

\* the kernel of every input row with every stored fit sample
InputFitKernel(X) ==
    [r \in 1..Len(X) |-> [j \in 1..Len(FitRows) |-> Dot(X[r], FitRows[j])]]

RecomputePath ==
    /\ AdaptReturned /\ cls \in {"TCA", "TJM"} /\ FittedInstance
    /\ ~SameBlocksAsFit

\* C18: on the recompute path of TCA and TJM adapt the kernel matrix K has
\* one row per input row, in input order, and n_s_fit + n_t_fit columns,
\* column j for the fit sample of row j of eigvects_ / A_ (stored source
\* samples first); K @ eigvects_ / K @ A_ is well-formed for any number of
\* input rows; on the fit data ordered source rows first this K is the
\* kernel matrix of the reuse path.
C18_RecomputedKernelShape ==
    /\ RecomputePath
        => /\ CrossKernel(argX, self.X_source_, self.X_target_)
                = InputFitKernel(argX)
           /\ Len(FittedProjection(self)) = Len(FitRows)
           /\ res = "ok"
           /\ out = MatMul(InputFitKernel(argX), FittedProjection(self))
           /\ Len(out) = Len(argX)
    /\ (FittedInstance /\ cls \in {"TCA", "TJM"})
        => /\ CrossKernel(FitRows, self.X_source_, self.X_target_)
                = _get_kernel_matrix(self.X_source_, self.X_target_)
           /\ cls = "TCA"
                => CrossKernel(FitRows, self.X_source_, self.X_target_)
                     = self.K_

C18_Witness ==
    /\ RecomputePath /\ res = "ok"
    /\ Len(argX) # Len(FitRows)
    /\ self.X_source_ # self.X_target_
    /\ \E c \in 1..Len(out[1]) : out[1][c] # 0

\* C14: SPALoss.forward returns
\* reg_adv * loss_adv + reg_gsa * gda_loss + reg_nap * nap_loss, for every
\* value of the three coefficients.
C14_LossIsWeightedSum ==
    forward # <<>>
        => forward.loss =
             forward.criterion.reg_adv * (forward.adv_s + forward.adv_t)
             + forward.criterion.reg_gsa * forward.gda
             + forward.criterion.reg_nap * forward.nap

\* the callbacks the caller passed to a call, as the caller created them
CallerCallbacks(callbacks) ==
    IF callbacks.kind = "None" THEN <<>>
    ELSE IF callbacks.kind = "list" THEN lists[callbacks.id].created
    ELSE <<callbacks.cb>>

\* C17: for any sequence of SPA calls, the callbacks handed to each built net
\* are the caller's callbacks followed by one ComputeMemoryBank and one
\* OnTrainBeginCallback, and the caller's own lists are left unmodified,
\* also when one list object is passed to two successive calls.
C17_CallerCallbacksUnmodified ==
    /\ \A c \in 1..Len(calls) :
        calls[c].res = "ok"
            => calls[c].handed =
                 CallerCallbacks(calls[c].callbacks)
                     \o <<"ComputeMemoryBank", "OnTrainBeginCallback">>
    /\ \A l \in CallerLists :
        l \in DOMAIN lists => lists[l].items = lists[l].created

====
